---- MODULE Spec2Model ----
(***************************************************************************)
(* Prompt Library (src/src/app/page.tsx): the template engine, the share   *)
(* codec and the PromptLibrary component's store of prompts.               *)
(*                                                                         *)
(* A JavaScript string is modelled as what it is: a sequence of UTF-16     *)
(* code units (numbers 0..65535).  The regular expressions, JSON, the URI  *)
(* component coding and base64 work on those code units.                   *)
(***************************************************************************)
EXTENDS Integers, Sequences, FiniteSets, TLC

VARIABLES
    \* ---- the PromptLibrary component and its collaborators
    pc,            \* "mount_share" | "mount_load" | "mount_commit" | "ready" | "crashed"
    prompts,       \* useState<Prompt[]>: the rendered Library (when libraryType = "array")
    libraryType,   \* JavaScript type of the value held by the prompts state
    selectedId,    \* useState<string | null>
    editName,      \* useState('')
    editContent,   \* useState('')
    queued,        \* state updates queued by the mount effects, applied at the re-render
    storage,       \* localStorage item 'prompt-library'
    search,        \* window.location.search: the value of its 's' parameter
    now,           \* the wall clock, Date.now()
    lastOp,        \* history: the operation that produced this state, and its id
    steps,         \* history: the number of user operations so far
    \* ---- template engine applied to drawn inputs
    tpl,
    \* ---- share codec applied to drawn inputs
    codec

vars == <<pc, prompts, libraryType, selectedId, editName, editContent, queued,
          storage, search, now, lastOp, steps, tpl, codec>>

storeVars == <<pc, prompts, libraryType, selectedId, editName, editContent, queued,
               storage, search, now, lastOp, steps>>

(***************************************************************************)
(* Code units                                                              *)
(***************************************************************************)
CharTab == 9
CharLF == 10
CharFF == 12
CharCR == 13
CharSpace == 32
CharQuote == 34
CharDollar == 36
CharPercent == 37
CharAmp == 38
CharApostrophe == 39
CharPlus == 43
CharComma == 44
CharMinus == 45
CharDot == 46
CharSlash == 47
CharColon == 58
CharEquals == 61
CharLBracket == 91
CharBackslash == 92
CharRBracket == 93
CharUnderscore == 95
CharBacktick == 96
CharLBrace == 123
CharRBrace == 125

IsDigit(c) == c >= 48 /\ c <= 57
IsUpper(c) == c >= 65 /\ c <= 90
IsLower(c) == c >= 97 /\ c <= 122

\* the regular expression class \w: [A-Za-z0-9_]
IsWordChar(c) == IsDigit(c) \/ IsUpper(c) \/ IsLower(c) \/ c = CharUnderscore

(***************************************************************************)
(* Sequences                                                               *)
(***************************************************************************)
Min(S) == CHOOSE x \in S : \A y \in S : x <= y

Max(S) == CHOOSE x \in S : \A y \in S : x >= y

\* the concatenation of F(s[lo]), ..., F(s[hi])
RECURSIVE FlatMap(_, _, _, _)
FlatMap(F(_), s, lo, hi) ==
    IF lo > hi THEN <<>>
    ELSE IF lo = hi THEN F(s[lo])
    ELSE LET mid == (lo + hi) \div 2
         IN  FlatMap(F, s, lo, mid) \o FlatMap(F, s, mid + 1, hi)

\* the concatenation of F(lo), ..., F(hi)
RECURSIVE FlatMapIndex(_, _, _)
FlatMapIndex(F(_), lo, hi) ==
    IF lo > hi THEN <<>>
    ELSE IF lo = hi THEN F(lo)
    ELSE LET mid == (lo + hi) \div 2
         IN  FlatMapIndex(F, lo, mid) \o FlatMapIndex(F, mid + 1, hi)

\* the first index in lo..hi at which P holds, hi + 1 when there is none
RECURSIVE FirstIndex(_, _, _)
FirstIndex(P(_), lo, hi) ==
    IF lo > hi THEN lo
    ELSE IF P(lo) THEN lo
    ELSE IF lo = hi THEN hi + 1
    ELSE LET mid == (lo + 1 + hi) \div 2
             left == FirstIndex(P, lo + 1, mid)
         IN  IF left <= mid THEN left ELSE FirstIndex(P, mid + 1, hi)

\* s[lo..hi] with each index i of the set special replaced by E(i)
RECURSIVE Splice(_, _, _, _, _)
Splice(E(_), s, special, lo, hi) ==
    IF lo > hi THEN <<>>
    ELSE IF \A i \in special : i < lo \/ i > hi THEN SubSeq(s, lo, hi)
    ELSE IF lo = hi THEN E(lo)
    ELSE LET mid == (lo + hi) \div 2
         IN  Splice(E, s, special, lo, mid) \o Splice(E, s, special, mid + 1, hi)

\* the members of a finite set of numbers, ascending
RECURSIVE Ascending(_)
Ascending(S) ==
    IF S = {} THEN <<>>
    ELSE LET m == Min(S) IN <<m>> \o Ascending(S \ {m})

\* whether pattern p occurs in s at index i
OccursAt(s, p, i) ==
    /\ i >= 1
    /\ i + Len(p) - 1 <= Len(s)
    /\ \A k \in 1..Len(p) : s[i + k - 1] = p[k]

Range(s) == {s[i] : i \in 1..Len(s)}

(***************************************************************************)
(* Template engine                                                         *)
(***************************************************************************)

\* the last index of the maximal run of \w characters that starts at i
\* (i - 1 when s[i] is no \w character): the greedy \w+
WordRunEnd(s, i) ==
    LET NotWord(j) == ~IsWordChar(s[j])
    IN  FirstIndex(NotWord, i, Len(s)) - 1

\* /\{\{(\w+)\}\}/ matches at index i.  \w+ is greedy and "}" is no \w character,
\* so the run never gives a character back: the match is decided at the run's end.
PlaceholderAt(s, i) ==
    /\ i + 4 <= Len(s)
    /\ s[i] = CharLBrace
    /\ s[i + 1] = CharLBrace
    /\ LET e == WordRunEnd(s, i + 2)
       IN  /\ e >= i + 2
           /\ e + 2 <= Len(s)
           /\ s[e + 1] = CharRBrace
           /\ s[e + 2] = CharRBrace

\* content.match(/\{\{(\w+)\}\}/g): the start of every match, left to right.  A
\* match holds "{" only in its first two places, so no match starts inside another
\* and the global scan finds exactly the indices where the expression matches.
PlaceholderStarts(s) == {i \in 1..Len(s) : PlaceholderAt(s, i)}

\* m.replace(/\{\{|\}\}/g, ''): the matched text without its braces
PlaceholderName(s, i) == SubSeq(s, i + 2, WordRunEnd(s, i + 2))

\* [...new Set(names)]: insertion order, the first occurrence of each name kept
DistinctInOrder(names) ==
    LET keep == {i \in 1..Len(names) : \A j \in 1..(i - 1) : names[j] # names[i]}
        idx == Ascending(keep)
    IN  [k \in 1..Len(idx) |-> names[idx[k]]]

extractVariables(content) ==
    LET starts == Ascending(PlaceholderStarts(content))
        matches == [k \in 1..Len(starts) |-> PlaceholderName(content, starts[k])]
    IN  DistinctInOrder(matches)

\* `{{${key}}}`
Placeholder(key) == <<CharLBrace, CharLBrace>> \o key \o <<CharRBrace, CharRBrace>>

\* In the replacement text, a "$" at index i starts a "$x" pattern unless it is the
\* second "$" of a "$$": dollars pair up from the start of their run.
DollarRunStart(r, i) == Min({j \in 1..i : \A k \in j..i : r[k] = CharDollar})

StartsPattern(r, i) ==
    /\ r[i] = CharDollar
    /\ (i - DollarRunStart(r, i)) % 2 = 0

\* String.prototype.replace's GetSubstitution for an expression without capture
\* groups: "$$" is "$", "$&" the match, "$`" the text before it, "$'" the text after
\* it; any other "$" (also "$1", "$<") stands for itself.
GetSubstitution(matched, str, position, replacement) ==
    LET n == Len(replacement)
        Piece(i) ==
            LET c == replacement[i]
                follows == i > 1 /\ StartsPattern(replacement, i - 1)
            IN  IF StartsPattern(replacement, i)
                THEN IF i = n THEN <<CharDollar>>
                     ELSE IF replacement[i + 1] = CharDollar THEN <<CharDollar>>
                     ELSE IF replacement[i + 1] = CharAmp THEN matched
                     ELSE IF replacement[i + 1] = CharBacktick
                          THEN SubSeq(str, 1, position - 1)
                     ELSE IF replacement[i + 1] = CharApostrophe
                          THEN SubSeq(str, position + Len(matched), Len(str))
                     ELSE <<CharDollar>>
                ELSE IF follows /\ c \in {CharDollar, CharAmp, CharBacktick, CharApostrophe}
                THEN <<>>
                ELSE <<c>>
    IN  FlatMapIndex(Piece, 1, n)

\* str.replace(new RegExp(`\\{\\{${key}\\}\\}`, 'g'), replacement) for a key of \w
\* characters: the expression is the literal text {{key}}, which cannot overlap
\* itself, and every occurrence is replaced.
ReplaceAll(str, key, replacement) ==
    LET pat == Placeholder(key)
        hits == {i \in 1..Len(str) : OccursAt(str, pat, i)}
        covered == UNION {h..(h + Len(pat) - 1) : h \in hits}
        Piece(i) ==
            IF i \in hits THEN GetSubstitution(pat, str, i, replacement) ELSE <<>>
    IN  Splice(Piece, str, covered, 1, Len(str))

\* the number a string of decimal digits writes
RECURSIVE DecimalValue(_)
DecimalValue(d) ==
    IF d = <<>> THEN 0
    ELSE 10 * DecimalValue(SubSeq(d, 1, Len(d) - 1)) + (d[Len(d)] - 48)

\* an integer-like property key ("0", "7", "12"; not "07"): such keys are
\* enumerated first, in ascending numeric order, whatever their insertion order.
\* (JavaScript's limit is 2^32 - 2; keys of up to nine digits are told apart here.)
IsIntegerKey(key) ==
    /\ key # <<>>
    /\ Len(key) <= 9
    /\ \A i \in 1..Len(key) : IsDigit(key[i])
    /\ (key[1] = 48 => Len(key) = 1)

\* Object.entries(values): values is the object's [key, value] pairs in insertion
\* order; integer-like keys come first in ascending order, the others follow in
\* insertion order
ObjectEntries(values) ==
    LET ints == {i \in 1..Len(values) : IsIntegerKey(values[i].key)}
        byValue == Ascending({DecimalValue(values[i].key) : i \in ints})
        intAt(v) == CHOOSE i \in ints : DecimalValue(values[i].key) = v
        first == [k \in 1..Len(byValue) |-> values[intAt(byValue[k])]]
        rest == Ascending((1..Len(values)) \ ints)
    IN  first \o [k \in 1..Len(rest) |-> values[rest[k]]]

\* the for loop of substituteVariables from entry k on
RECURSIVE SubstituteFrom(_, _, _)
SubstituteFrom(result, entries, k) ==
    IF k > Len(entries) THEN result
    ELSE LET key == entries[k].key
             value == entries[k].value
             replacement == IF value # <<>> THEN value ELSE Placeholder(key)
         IN  SubstituteFrom(ReplaceAll(result, key, replacement), entries, k + 1)

substituteVariables(content, values) ==
    SubstituteFrom(content, ObjectEntries(values), 1)

(***************************************************************************)
(* JSON values.  A value is a record tagged by its JavaScript type:        *)
(*   [t |-> "undefined"], [t |-> "null"], [t |-> "bool", b |-> ...],       *)
(*   [t |-> "num", n |-> integer], [t |-> "real", lex |-> the literal],    *)
(*   [t |-> "str", s |-> code units], [t |-> "arr", items |-> <<...>>],    *)
(*   [t |-> "obj", members |-> <<[k |-> key, v |-> value], ...>>]          *)
(* An object's members are in property order and its keys are distinct.    *)
(***************************************************************************)
JUndefined == [t |-> "undefined"]

JNull == [t |-> "null"]

JBool(b) == [t |-> "bool", b |-> b]

JNum(n) == [t |-> "num", n |-> n]

JReal(lex) == [t |-> "real", lex |-> lex]

JStr(s) == [t |-> "str", s |-> s]

JArr(items) == [t |-> "arr", items |-> items]

JObj(members) == [t |-> "obj", members |-> members]

\* value[key] of JavaScript for a string key that is no built-in property name:
\* an own property of an object, undefined on anything else
GetProperty(value, key) ==
    IF value.t = "obj" /\ \E i \in 1..Len(value.members) : value.members[i].k = key
    THEN value.members[CHOOSE i \in 1..Len(value.members) : value.members[i].k = key].v
    ELSE JUndefined

HexDigit(d) == IF d < 10 THEN 48 + d ELSE 97 + (d - 10)

HexDigitUpper(d) == IF d < 10 THEN 48 + d ELSE 65 + (d - 10)

IsHexDigit(c) == IsDigit(c) \/ (c >= 65 /\ c <= 70) \/ (c >= 97 /\ c <= 102)

HexValue(c) == IF IsDigit(c) THEN c - 48 ELSE IF c >= 97 THEN c - 87 ELSE c - 55

IsLeadSurrogate(c) == c >= 55296 /\ c <= 56319

IsTrailSurrogate(c) == c >= 56320 /\ c <= 57343

\* the code unit at i is half of a surrogate pair
InSurrogatePair(s, i) ==
    \/ IsLeadSurrogate(s[i]) /\ i < Len(s) /\ IsTrailSurrogate(s[i + 1])
    \/ IsTrailSurrogate(s[i]) /\ i > 1 /\ IsLeadSurrogate(s[i - 1])

\* \uXXXX, lower-case hexadecimal
UnicodeEscape(c) ==
    <<CharBackslash, 117, HexDigit(c \div 4096), HexDigit((c \div 256) % 16),
      HexDigit((c \div 16) % 16), HexDigit(c % 16)>>

\* JSON.stringify of a string (QuoteJSONString): the quotes, the short escapes,
\* \u00XX for the other control characters and \uDXXX for a lone surrogate
QuoteJSONString(s) ==
    LET escaped == {i \in 1..Len(s) :
                       \/ s[i] < 32
                       \/ s[i] = CharQuote
                       \/ s[i] = CharBackslash
                       \/ s[i] >= 55296 /\ s[i] <= 57343 /\ ~InSurrogatePair(s, i)}
        Escape(i) ==
            LET c == s[i]
            IN  IF c = 8 THEN <<CharBackslash, 98>>
                ELSE IF c = CharTab THEN <<CharBackslash, 116>>
                ELSE IF c = CharLF THEN <<CharBackslash, 110>>
                ELSE IF c = CharFF THEN <<CharBackslash, 102>>
                ELSE IF c = CharCR THEN <<CharBackslash, 114>>
                ELSE IF c = CharQuote THEN <<CharBackslash, CharQuote>>
                ELSE IF c = CharBackslash THEN <<CharBackslash, CharBackslash>>
                ELSE UnicodeEscape(c)
    IN  <<CharQuote>> \o Splice(Escape, s, escaped, 1, Len(s)) \o <<CharQuote>>

\* Number.prototype.toString of an integer
RECURSIVE DecimalDigits(_)
DecimalDigits(n) ==
    IF n < 10 THEN <<48 + n>> ELSE DecimalDigits(n \div 10) \o <<48 + (n % 10)>>

NumberToString(n) == IF n < 0 THEN <<CharMinus>> \o DecimalDigits(0 - n) ELSE DecimalDigits(n)

TextTrue == <<116, 114, 117, 101>>

TextFalse == <<102, 97, 108, 115, 101>>

TextNull == <<110, 117, 108, 108>>

\* JSON.stringify of a value, no indentation.  An undefined member of an object is
\* left out; an undefined element of an array is written null.
RECURSIVE JSONStringify(_)
JSONStringify(value) ==
    CASE value.t = "null" -> TextNull
      [] value.t = "undefined" -> TextNull
      [] value.t = "bool" -> IF value.b THEN TextTrue ELSE TextFalse
      [] value.t = "num" -> NumberToString(value.n)
      [] value.t = "real" -> value.lex
      [] value.t = "str" -> QuoteJSONString(value.s)
      [] value.t = "arr" ->
            LET Item(i) ==
                    (IF i > 1 THEN <<CharComma>> ELSE <<>>)
                        \o JSONStringify(value.items[i])
            IN  <<CharLBracket>> \o FlatMapIndex(Item, 1, Len(value.items))
                    \o <<CharRBracket>>
      [] value.t = "obj" ->
            LET kept == SelectSeq(value.members, LAMBDA m : m.v.t # "undefined")
                Member(i) ==
                    (IF i > 1 THEN <<CharComma>> ELSE <<>>)
                        \o QuoteJSONString(kept[i].k) \o <<CharColon>>
                        \o JSONStringify(kept[i].v)
            IN  <<CharLBrace>> \o FlatMapIndex(Member, 1, Len(kept)) \o <<CharRBrace>>

(***************************************************************************)
(* JSON.parse.  A parse step returns [ok |-> TRUE, v |-> value, next |->   *)
(* the index after it] or [ok |-> FALSE] (a SyntaxError).                  *)
(***************************************************************************)
ParseFail == [ok |-> FALSE]

ParseOk(v, next) == [ok |-> TRUE, v |-> v, next |-> next]

IsJSONSpace(c) == c \in {CharSpace, CharTab, CharLF, CharCR}

\* the first index from i on that holds no white space (Len(s) + 1 at the end)
SkipSpace(s, i) ==
    LET NotSpace(j) == ~IsJSONSpace(s[j])
    IN  FirstIndex(NotSpace, i, Len(s))

\* the first index from i on that holds no digit
SkipDigits(s, i) ==
    LET NotDigit(j) == ~IsDigit(s[j])
    IN  FirstIndex(NotDigit, i, Len(s))

\* inside a string literal that opened at index open, the backslash at i starts an
\* escape unless it is itself escaped: backslashes pair up from the start of their run
BackslashesBefore(s, open, i) ==
    LET NotBackslash(d) == i - d <= open \/ s[i - d] # CharBackslash
    IN  FirstIndex(NotBackslash, 1, i) - 1

StartsEscape(s, open, i) ==
    /\ i > open
    /\ s[i] = CharBackslash
    /\ BackslashesBefore(s, open, i) % 2 = 0

\* the character a short escape \x stands for, 0 - 1 when x is no escape character
ShortEscape(c) ==
    CASE c = CharQuote -> CharQuote
      [] c = CharBackslash -> CharBackslash
      [] c = CharSlash -> CharSlash
      [] c = 98 -> 8
      [] c = 102 -> CharFF
      [] c = 110 -> CharLF
      [] c = 114 -> CharCR
      [] c = 116 -> CharTab
      [] OTHER -> 0 - 1

\* a string literal whose opening quote is at index open
ParseString(s, open) ==
    LET n == Len(s)
        Closes(j) == s[j] = CharQuote /\ ~StartsEscape(s, open, j - 1)
        close == FirstIndex(Closes, open + 1, n)
        escapes == {i \in (open + 1)..(close - 1) : StartsEscape(s, open, i)}
        EscapeLength(k) == IF s[k + 1] = 117 THEN 6 ELSE 2
        EscapeOk(k) ==
            IF s[k + 1] = 117
            THEN k + 5 < close /\ \A h \in (k + 2)..(k + 5) : IsHexDigit(s[h])
            ELSE ShortEscape(s[k + 1]) >= 0
        covered == UNION {k..(k + EscapeLength(k) - 1) : k \in escapes}
        Piece(i) ==
            IF i \notin escapes THEN <<>>
            ELSE IF s[i + 1] = 117
                 THEN <<4096 * HexValue(s[i + 2]) + 256 * HexValue(s[i + 3])
                          + 16 * HexValue(s[i + 4]) + HexValue(s[i + 5])>>
            ELSE <<ShortEscape(s[i + 1])>>
    IN  IF close > n THEN ParseFail
        ELSE IF \E i \in (open + 1)..(close - 1) : s[i] < 32 THEN ParseFail
        ELSE IF \E k \in escapes : ~EscapeOk(k) THEN ParseFail
        ELSE ParseOk(JStr(Splice(Piece, s, covered, open + 1, close - 1)), close + 1)

\* a number literal at index i: -? (0 | [1-9][0-9]*) (. [0-9]+)? ([eE] [+-]? [0-9]+)?
ParseNumber(s, i) ==
    LET n == Len(s)
        At(j) == IF j <= n THEN s[j] ELSE 0
        intStart == IF At(i) = CharMinus THEN i + 1 ELSE i
        intEnd == IF At(intStart) = 48 THEN intStart + 1 ELSE SkipDigits(s, intStart)
        hasFrac == At(intEnd) = CharDot
        fracEnd == IF hasFrac THEN SkipDigits(s, intEnd + 1) ELSE intEnd
        hasExp == At(fracEnd) \in {69, 101}
        expStart == IF At(fracEnd + 1) \in {CharPlus, CharMinus}
                    THEN fracEnd + 2 ELSE fracEnd + 1
        expEnd == IF hasExp THEN SkipDigits(s, expStart) ELSE fracEnd
        magnitude == DecimalValue(SubSeq(s, intStart, intEnd - 1))
    IN  IF intEnd = intStart THEN ParseFail
        ELSE IF hasFrac /\ fracEnd = intEnd + 1 THEN ParseFail
        ELSE IF hasExp /\ expEnd = expStart THEN ParseFail
        ELSE IF hasFrac \/ hasExp \/ intEnd - intStart > 9
             THEN ParseOk(JReal(SubSeq(s, i, expEnd - 1)), expEnd)
        ELSE ParseOk(JNum(IF intStart > i THEN 0 - magnitude ELSE magnitude), expEnd)

\* CreateDataProperty on the members parsed so far: a repeated key keeps its place
\* and takes the later value
DefineMember(members, key, value) ==
    IF \E i \in 1..Len(members) : members[i].k = key
    THEN [i \in 1..Len(members) |->
             IF members[i].k = key THEN [k |-> key, v |-> value] ELSE members[i]]
    ELSE Append(members, [k |-> key, v |-> value])

RECURSIVE ParseValue(_, _), ParseElements(_, _, _), ParseMembers(_, _, _)

\* an array whose "[" is followed, after white space, by index j
ParseArray(s, j) ==
    IF j <= Len(s) /\ s[j] = CharRBracket THEN ParseOk(JArr(<<>>), j + 1)
    ELSE ParseElements(s, j, <<>>)

\* an object whose "{" is followed, after white space, by index j
ParseObject(s, j) ==
    IF j <= Len(s) /\ s[j] = CharRBrace THEN ParseOk(JObj(<<>>), j + 1)
    ELSE ParseMembers(s, j, <<>>)

\* the value that starts at index i (white space skipped by the caller)
ParseValue(s, i) ==
    IF i > Len(s) THEN ParseFail
    ELSE IF s[i] = CharQuote THEN ParseString(s, i)
    ELSE IF s[i] = CharMinus \/ IsDigit(s[i]) THEN ParseNumber(s, i)
    ELSE IF OccursAt(s, TextTrue, i) THEN ParseOk(JBool(TRUE), i + 4)
    ELSE IF OccursAt(s, TextFalse, i) THEN ParseOk(JBool(FALSE), i + 5)
    ELSE IF OccursAt(s, TextNull, i) THEN ParseOk(JNull, i + 4)
    ELSE IF s[i] = CharLBracket THEN ParseArray(s, SkipSpace(s, i + 1))
    ELSE IF s[i] = CharLBrace THEN ParseObject(s, SkipSpace(s, i + 1))
    ELSE ParseFail

\* after the elements all, at index j (white space skipped): "]" or "," and more
ElementsNext(s, j, all) ==
    IF j > Len(s) THEN ParseFail
    ELSE IF s[j] = CharRBracket THEN ParseOk(JArr(all), j + 1)
    ELSE IF s[j] = CharComma THEN ParseElements(s, SkipSpace(s, j + 1), all)
    ELSE ParseFail

\* after the elements items and the parse e of the next one
ElementsAfter(s, items, e) ==
    IF ~e.ok THEN ParseFail
    ELSE ElementsNext(s, SkipSpace(s, e.next), Append(items, e.v))

\* the elements of an array from index i on, after those in items
ParseElements(s, i, items) == ElementsAfter(s, items, ParseValue(s, i))

\* after the members all, at index j (white space skipped): "}" or "," and more
MembersNext(s, j, all) ==
    IF j > Len(s) THEN ParseFail
    ELSE IF s[j] = CharRBrace THEN ParseOk(JObj(all), j + 1)
    ELSE IF s[j] = CharComma THEN ParseMembers(s, SkipSpace(s, j + 1), all)
    ELSE ParseFail

\* after the members, a key and the parse e of its value
MemberAfterValue(s, members, key, e) ==
    IF ~e.ok THEN ParseFail
    ELSE MembersNext(s, SkipSpace(s, e.next), DefineMember(members, key, e.v))

\* after the members and a key, at index c (white space skipped): ":" and a value
MemberAfterKey(s, members, key, c) ==
    IF c > Len(s) \/ s[c] # CharColon THEN ParseFail
    ELSE MemberAfterValue(s, members, key, ParseValue(s, SkipSpace(s, c + 1)))

\* after the members and the parse of the next key
MemberKey(s, members, key) ==
    IF ~key.ok THEN ParseFail
    ELSE MemberAfterKey(s, members, key.v.s, SkipSpace(s, key.next))

\* the members of an object from index i on, after those in members
ParseMembers(s, i, members) ==
    IF i > Len(s) \/ s[i] # CharQuote THEN ParseFail
    ELSE MemberKey(s, members, ParseString(s, i))

\* the result of JSON.parse(text), given the parse r of the value at its start
ParseWhole(text, r) ==
    IF ~r.ok THEN ParseFail
    ELSE IF SkipSpace(text, r.next) <= Len(text) THEN ParseFail
    ELSE [ok |-> TRUE, v |-> r.v]

\* JSON.parse(text): [ok |-> TRUE, v |-> value], or [ok |-> FALSE] for a SyntaxError
JSONParse(text) == ParseWhole(text, ParseValue(text, SkipSpace(text, 1)))

(***************************************************************************)
(* encodeURIComponent, decodeURIComponent, btoa, atob.  Each returns       *)
(* [ok |-> TRUE, s |-> text] or [ok |-> FALSE] when it throws.             *)
(***************************************************************************)
Threw == [ok |-> FALSE]

Returned(s) == [ok |-> TRUE, s |-> s]

\* the characters encodeURIComponent leaves as they are: A-Z a-z 0-9 - _ . ! ~ * ' ( )
IsUriUnreserved(c) ==
    \/ IsDigit(c) \/ IsUpper(c) \/ IsLower(c)
    \/ c \in {CharMinus, CharUnderscore, CharDot, 33, 126, 42, CharApostrophe, 40, 41}

\* %XX, upper-case hexadecimal
PercentByte(b) == <<CharPercent, HexDigitUpper(b \div 16), HexDigitUpper(b % 16)>>

\* the UTF-8 bytes of a code point
Utf8Bytes(cp) ==
    IF cp < 128 THEN <<cp>>
    ELSE IF cp < 2048 THEN <<192 + (cp \div 64), 128 + (cp % 64)>>
    ELSE IF cp < 65536
         THEN <<224 + (cp \div 4096), 128 + ((cp \div 64) % 64), 128 + (cp % 64)>>
    ELSE <<240 + (cp \div 262144), 128 + ((cp \div 4096) % 64),
           128 + ((cp \div 64) % 64), 128 + (cp % 64)>>

PercentBytes(bytes) == FlatMap(PercentByte, bytes, 1, Len(bytes))

\* the code point of the surrogate pair (lead, trail)
PairCodePoint(lead, trail) == 65536 + (lead - 55296) * 1024 + (trail - 56320)

\* encodeURIComponent(s): a URIError for a surrogate that is not half of a pair
encodeURIComponent(s) ==
    LET Piece(i) ==
            LET c == s[i]
            IN  IF IsUriUnreserved(c) THEN <<c>>
                ELSE IF IsLeadSurrogate(c)
                     THEN PercentBytes(Utf8Bytes(PairCodePoint(c, s[i + 1])))
                ELSE IF IsTrailSurrogate(c) THEN <<>>
                ELSE PercentBytes(Utf8Bytes(c))
    IN  IF \E i \in 1..Len(s) :
               (IsLeadSurrogate(s[i]) \/ IsTrailSurrogate(s[i])) /\ ~InSurrogatePair(s, i)
        THEN Threw
        ELSE Returned(FlatMapIndex(Piece, 1, Len(s)))

\* the base64 alphabet: A-Z a-z 0-9 + /
Base64Char(v) ==
    IF v < 26 THEN 65 + v
    ELSE IF v < 52 THEN 97 + (v - 26)
    ELSE IF v < 62 THEN 48 + (v - 52)
    ELSE IF v = 62 THEN CharPlus
    ELSE CharSlash

IsBase64Char(c) == IsDigit(c) \/ IsUpper(c) \/ IsLower(c) \/ c = CharPlus \/ c = CharSlash

Base64Value(c) ==
    IF IsUpper(c) THEN c - 65
    ELSE IF IsLower(c) THEN c - 97 + 26
    ELSE IF IsDigit(c) THEN c - 48 + 52
    ELSE IF c = CharPlus THEN 62
    ELSE 63

\* btoa(s): an InvalidCharacterError for a code unit above 255; three bytes make
\* four characters, the last group padded with "="
btoa(s) ==
    LET n == Len(s)
        Group(g) ==
            LET b1 == s[3 * g + 1]
                has2 == 3 * g + 2 <= n
                has3 == 3 * g + 3 <= n
                b2 == IF has2 THEN s[3 * g + 2] ELSE 0
                b3 == IF has3 THEN s[3 * g + 3] ELSE 0
            IN  <<Base64Char(b1 \div 4),
                  Base64Char((b1 % 4) * 16 + (b2 \div 16)),
                  IF has2 THEN Base64Char((b2 % 16) * 4 + (b3 \div 64)) ELSE CharEquals,
                  IF has3 THEN Base64Char(b3 % 64) ELSE CharEquals>>
    IN  IF \E i \in 1..n : s[i] > 255 THEN Threw
        ELSE Returned(FlatMapIndex(Group, 0, ((n + 2) \div 3) - 1))

\* atob(data), the forgiving base64 decode: ASCII white space is dropped, one or two
\* trailing "=" are dropped when the length is a multiple of four, and what is left
\* must be base64 characters, its length not 1 more than a multiple of four; the
\* bits left over after the last whole byte are discarded
atob(data) ==
    LET stripped == SelectSeq(data,
                        LAMBDA c : c \notin {CharTab, CharLF, CharFF, CharCR, CharSpace})
        n0 == Len(stripped)
        pad == IF n0 % 4 # 0 \/ n0 = 0 THEN 0
               ELSE IF stripped[n0] # CharEquals THEN 0
               ELSE IF stripped[n0 - 1] = CharEquals THEN 2
               ELSE 1
        body == SubSeq(stripped, 1, n0 - pad)
        n == Len(body)
        Sextet(i) == Base64Value(body[i])
        Byte(k) ==
            LET g == 4 * ((k - 1) \div 3)
                r == (k - 1) % 3
            IN  IF r = 0 THEN <<Sextet(g + 1) * 4 + (Sextet(g + 2) \div 16)>>
                ELSE IF r = 1 THEN <<(Sextet(g + 2) % 16) * 16 + (Sextet(g + 3) \div 4)>>
                ELSE <<(Sextet(g + 3) % 4) * 64 + Sextet(g + 4)>>
    IN  IF n % 4 = 1 THEN Threw
        ELSE IF \E i \in 1..n : ~IsBase64Char(body[i]) THEN Threw
        ELSE Returned(FlatMapIndex(Byte, 1, (n * 6) \div 8))

\* the number of bytes of the UTF-8 sequence a byte starts: 1 for ASCII, 2 to 4 for
\* a lead byte, 0 for a continuation byte or a byte that starts nothing
Utf8Length(b) ==
    IF b < 128 THEN 1
    ELSE IF b >= 192 /\ b < 224 THEN 2
    ELSE IF b >= 224 /\ b < 240 THEN 3
    ELSE IF b >= 240 /\ b < 248 THEN 4
    ELSE 0

IsContinuation(b) == b >= 128 /\ b < 192

\* the code point of a UTF-8 sequence of 2 to 4 bytes, 0 - 1 when it is overlong, a
\* surrogate or above U+10FFFF
Utf8CodePoint(bytes) ==
    LET n == Len(bytes)
        cp == IF n = 2 THEN (bytes[1] - 192) * 64 + (bytes[2] - 128)
              ELSE IF n = 3
                   THEN (bytes[1] - 224) * 4096 + (bytes[2] - 128) * 64 + (bytes[3] - 128)
              ELSE (bytes[1] - 240) * 262144 + (bytes[2] - 128) * 4096
                       + (bytes[3] - 128) * 64 + (bytes[4] - 128)
        least == IF n = 2 THEN 128 ELSE IF n = 3 THEN 2048 ELSE 65536
    IN  IF cp < least \/ cp > 1114111 \/ (cp >= 55296 /\ cp <= 57343) THEN 0 - 1 ELSE cp

\* the UTF-16 code units of a code point
Utf16Units(cp) ==
    IF cp < 65536 THEN <<cp>>
    ELSE <<55296 + ((cp - 65536) \div 1024), 56320 + ((cp - 65536) % 1024)>>

\* decodeURIComponent(s): every "%" must begin %XX; the bytes so written must be
\* well-formed UTF-8, each sequence given by consecutive %XX; anything else is a
\* URIError.  A character that is no "%" stands for itself.
decodeURIComponent(s) ==
    LET n == Len(s)
        PercentOk(i) == i + 2 <= n /\ IsHexDigit(s[i + 1]) /\ IsHexDigit(s[i + 2])
        \* the text as items: a byte for each %XX, a literal for any other code unit
        Item(i) ==
            IF s[i] = CharPercent
            THEN <<[byte |-> TRUE, c |-> 16 * HexValue(s[i + 1]) + HexValue(s[i + 2])]>>
            ELSE IF (i > 1 /\ s[i - 1] = CharPercent) \/ (i > 2 /\ s[i - 2] = CharPercent)
            THEN <<>>
            ELSE <<[byte |-> FALSE, c |-> s[i]]>>
        items == FlatMapIndex(Item, 1, n)
        m == Len(items)
        IsCont(j) == items[j].byte /\ IsContinuation(items[j].c)
        \* the item that starts the sequence a continuation byte at j would belong to
        StartItem(j) == Max({h \in 0..(j - 1) : h = 0 \/ ~IsCont(h)})
        Need(j) == IF items[j].byte THEN Utf8Length(items[j].c) ELSE 1
        Sequence(j) == [k \in 1..Need(j) |-> items[j + k - 1].c]
        ItemOk(j) ==
            IF ~items[j].byte THEN TRUE
            ELSE IF IsCont(j)
                 THEN LET h == StartItem(j)
                      IN  h >= 1 /\ items[h].byte /\ j - h < Utf8Length(items[h].c)
            ELSE /\ Need(j) >= 1
                 /\ j + Need(j) - 1 <= m
                 /\ \A k \in (j + 1)..(j + Need(j) - 1) : IsCont(k)
                 /\ (Need(j) > 1 => Utf8CodePoint(Sequence(j)) >= 0)
        Decoded(j) ==
            IF ~items[j].byte THEN <<items[j].c>>
            ELSE IF IsCont(j) THEN <<>>
            ELSE IF Need(j) = 1 THEN <<items[j].c>>
            ELSE Utf16Units(Utf8CodePoint(Sequence(j)))
    IN  IF \E i \in 1..n : s[i] = CharPercent /\ ~PercentOk(i) THEN Threw
        ELSE IF \E j \in 1..m : ~ItemOk(j) THEN Threw
        ELSE Returned(FlatMapIndex(Decoded, 1, m))

(***************************************************************************)
(* Share codec                                                             *)
(***************************************************************************)
TextName == <<110, 97, 109, 101>>

TextContent == <<99, 111, 110, 116, 101, 110, 116>>

TextVariables == <<118, 97, 114, 105, 97, 98, 108, 101, 115>>

\* an array of strings as a JSON value
StringArray(strings) == JArr([i \in 1..Len(strings) |-> JStr(strings[i])])

\* { name: prompt.name, content: prompt.content, variables: prompt.variables }
SharePayload(name, content, variables) ==
    JObj(<<[k |-> TextName, v |-> JStr(name)],
           [k |-> TextContent, v |-> JStr(content)],
           [k |-> TextVariables, v |-> StringArray(variables)]>>)

\* serializePrompt without encodeURIComponent: btoa of the JSON text itself
serializePromptUnescaped(name, content, variables) ==
    btoa(JSONStringify(SharePayload(name, content, variables)))

\* serializePrompt: btoa(encodeURIComponent(JSON.stringify({name, content, variables})));
\* [ok |-> FALSE] when encodeURIComponent or btoa throws
serializePrompt(name, content, variables) ==
    LET data == JSONStringify(SharePayload(name, content, variables))
        escaped == encodeURIComponent(data)
    IN  IF ~escaped.ok THEN Threw ELSE btoa(escaped.s)

\* decodeURIComponent of what atob returned, when it returned
DecodedText(binary) == IF binary.ok THEN decodeURIComponent(binary.s) ELSE Threw

\* what the try block returns, given what JSON.parse did
ValueOrNull(parsed) == IF parsed.ok THEN parsed.v ELSE JNull

\* JSON.parse of what decodeURIComponent returned; null when either threw
ParsedOrNull(data) == IF data.ok THEN ValueOrNull(JSONParse(data.s)) ELSE JNull

\* deserializePrompt: JSON.parse(decodeURIComponent(atob(encoded))), null when any of
\* the three throws.  What JSON.parse returns is returned as it is.
deserializePrompt(encoded) == ParsedOrNull(DecodedText(atob(encoded)))

(***************************************************************************)
(* Program constants (src/src/app/page.tsx, lines 15-126)                  *)
(***************************************************************************)
\* DEFAULT_PROMPT: "You are a {{role}} helping with {{task}}. ... Context: {{context}}"
DEFAULT_PROMPT ==
    <<89, 111, 117, 32, 97, 114, 101, 32, 97, 32, 123, 123, 114, 111, 108, 101, 125,
      125, 32, 104, 101, 108, 112, 105, 110, 103, 32, 119, 105, 116, 104, 32, 123, 123,
      116, 97, 115, 107, 125, 125, 46, 10, 10, 73, 110, 115, 116, 114, 117, 99, 116,
      105, 111, 110, 115, 58, 10, 45, 32, 66, 101, 32, 99, 111, 110, 99, 105, 115, 101,
      32, 97, 110, 100, 32, 104, 101, 108, 112, 102, 117, 108, 10, 45, 32, 123, 123,
      97, 100, 100, 105, 116, 105, 111, 110, 97, 108, 95, 105, 110, 115, 116, 114, 117,
      99, 116, 105, 111, 110, 115, 125, 125, 10, 10, 67, 111, 110, 116, 101, 120, 116,
      58, 10, 123, 123, 99, 111, 110, 116, 101, 120, 116, 125, 125>>

\* PRESETS[0].name: "Support Triage"
PresetSupportTriageName == <<83, 117, 112, 112, 111, 114, 116, 32, 84, 114, 105, 97, 103, 101>>

\* PRESETS[0].content: "You are a support ticket triage agent." ... with {{ticket_content}}
PresetSupportTriageContent ==
    <<89, 111, 117, 32, 97, 114, 101, 32, 97, 32, 115, 117, 112, 112, 111, 114, 116,
      32, 116, 105, 99, 107, 101, 116, 32, 116, 114, 105, 97, 103, 101, 32, 97, 103,
      101, 110, 116, 46, 10, 10, 65, 110, 97, 108, 121, 122, 101, 32, 116, 104, 101,
      32, 105, 110, 99, 111, 109, 105, 110, 103, 32, 116, 105, 99, 107, 101, 116, 32,
      97, 110, 100, 32, 99, 97, 116, 101, 103, 111, 114, 105, 122, 101, 32, 105, 116,
      58, 10, 45, 32, 112, 114, 105, 111, 114, 105, 116, 121, 58, 32, 99, 114, 105,
      116, 105, 99, 97, 108, 32, 124, 32, 104, 105, 103, 104, 32, 124, 32, 109, 101,
      100, 105, 117, 109, 32, 124, 32, 108, 111, 119, 10, 45, 32, 99, 97, 116, 101,
      103, 111, 114, 121, 58, 32, 98, 105, 108, 108, 105, 110, 103, 32, 124, 32, 116,
      101, 99, 104, 110, 105, 99, 97, 108, 32, 124, 32, 97, 99, 99, 111, 117, 110, 116,
      32, 124, 32, 102, 101, 97, 116, 117, 114, 101, 95, 114, 101, 113, 117, 101, 115,
      116, 32, 124, 32, 111, 116, 104, 101, 114, 10, 45, 32, 115, 101, 110, 116, 105,
      109, 101, 110, 116, 58, 32, 102, 114, 117, 115, 116, 114, 97, 116, 101, 100, 32,
      124, 32, 110, 101, 117, 116, 114, 97, 108, 32, 124, 32, 115, 97, 116, 105, 115,
      102, 105, 101, 100, 10, 10, 80, 114, 111, 118, 105, 100, 101, 32, 97, 32, 98,
      114, 105, 101, 102, 32, 115, 117, 109, 109, 97, 114, 121, 32, 97, 110, 100, 32,
      114, 101, 99, 111, 109, 109, 101, 110, 100, 101, 100, 32, 97, 99, 116, 105, 111,
      110, 46, 10, 10, 84, 105, 99, 107, 101, 116, 58, 10, 123, 123, 116, 105, 99, 107,
      101, 116, 95, 99, 111, 110, 116, 101, 110, 116, 125, 125>>

\* PRESETS[1].name: "Code Review"
PresetCodeReviewName == <<67, 111, 100, 101, 32, 82, 101, 118, 105, 101, 119>>

\* PRESETS[1].content: "You are a code reviewer providing constructive feedback." ... with {{diff}}
PresetCodeReviewContent ==
    <<89, 111, 117, 32, 97, 114, 101, 32, 97, 32, 99, 111, 100, 101, 32, 114, 101, 118,
      105, 101, 119, 101, 114, 32, 112, 114, 111, 118, 105, 100, 105, 110, 103, 32, 99,
      111, 110, 115, 116, 114, 117, 99, 116, 105, 118, 101, 32, 102, 101, 101, 100, 98,
      97, 99, 107, 46, 10, 10, 82, 101, 118, 105, 101, 119, 32, 116, 104, 101, 32, 102,
      111, 108, 108, 111, 119, 105, 110, 103, 32, 99, 111, 100, 101, 32, 99, 104, 97,
      110, 103, 101, 115, 32, 97, 110, 100, 32, 105, 100, 101, 110, 116, 105, 102, 121,
      58, 10, 49, 46, 32, 80, 111, 116, 101, 110, 116, 105, 97, 108, 32, 98, 117, 103,
      115, 32, 111, 114, 32, 105, 115, 115, 117, 101, 115, 10, 50, 46, 32, 80, 101,
      114, 102, 111, 114, 109, 97, 110, 99, 101, 32, 99, 111, 110, 99, 101, 114, 110,
      115, 10, 51, 46, 32, 67, 111, 100, 101, 32, 113, 117, 97, 108, 105, 116, 121, 32,
      115, 117, 103, 103, 101, 115, 116, 105, 111, 110, 115, 10, 52, 46, 32, 83, 101,
      99, 117, 114, 105, 116, 121, 32, 99, 111, 110, 115, 105, 100, 101, 114, 97, 116,
      105, 111, 110, 115, 10, 10, 67, 111, 100, 101, 32, 100, 105, 102, 102, 58, 10,
      123, 123, 100, 105, 102, 102, 125, 125, 10, 10, 80, 114, 111, 118, 105, 100, 101,
      32, 121, 111, 117, 114, 32, 114, 101, 118, 105, 101, 119, 32, 105, 110, 32, 97,
      32, 115, 116, 114, 117, 99, 116, 117, 114, 101, 100, 32, 102, 111, 114, 109, 97,
      116, 46>>

\* PRESETS[2].name: "SQL Generator"
PresetSQLGeneratorName == <<83, 81, 76, 32, 71, 101, 110, 101, 114, 97, 116, 111, 114>>

\* PRESETS[2].content: "You are a SQL query generator." ... with {{schema}}, {{request}}
PresetSQLGeneratorContent ==
    <<89, 111, 117, 32, 97, 114, 101, 32, 97, 32, 83, 81, 76, 32, 113, 117, 101, 114,
      121, 32, 103, 101, 110, 101, 114, 97, 116, 111, 114, 46, 10, 10, 71, 105, 118,
      101, 110, 32, 116, 104, 101, 32, 102, 111, 108, 108, 111, 119, 105, 110, 103, 32,
      116, 97, 98, 108, 101, 32, 115, 99, 104, 101, 109, 97, 32, 97, 110, 100, 32, 117,
      115, 101, 114, 32, 114, 101, 113, 117, 101, 115, 116, 44, 32, 103, 101, 110, 101,
      114, 97, 116, 101, 32, 97, 110, 32, 101, 102, 102, 105, 99, 105, 101, 110, 116,
      32, 83, 81, 76, 32, 113, 117, 101, 114, 121, 46, 10, 10, 84, 97, 98, 108, 101,
      32, 83, 99, 104, 101, 109, 97, 58, 10, 123, 123, 115, 99, 104, 101, 109, 97, 125,
      125, 10, 10, 85, 115, 101, 114, 32, 82, 101, 113, 117, 101, 115, 116, 58, 10,
      123, 123, 114, 101, 113, 117, 101, 115, 116, 125, 125, 10, 10, 80, 114, 111, 118,
      105, 100, 101, 32, 111, 110, 108, 121, 32, 116, 104, 101, 32, 83, 81, 76, 32,
      113, 117, 101, 114, 121, 32, 119, 105, 116, 104, 32, 97, 32, 98, 114, 105, 101,
      102, 32, 101, 120, 112, 108, 97, 110, 97, 116, 105, 111, 110, 46>>

\* PRESETS[3].name: "Email Writer"
PresetEmailWriterName == <<69, 109, 97, 105, 108, 32, 87, 114, 105, 116, 101, 114>>

\* PRESETS[3].content: "You are a professional email writer." ... with {{tone}}, {{subject}}, {{message}}, {{cta}}
PresetEmailWriterContent ==
    <<89, 111, 117, 32, 97, 114, 101, 32, 97, 32, 112, 114, 111, 102, 101, 115, 115,
      105, 111, 110, 97, 108, 32, 101, 109, 97, 105, 108, 32, 119, 114, 105, 116, 101,
      114, 46, 10, 10, 87, 114, 105, 116, 101, 32, 97, 32, 123, 123, 116, 111, 110,
      101, 125, 125, 32, 101, 109, 97, 105, 108, 32, 119, 105, 116, 104, 32, 116, 104,
      101, 32, 102, 111, 108, 108, 111, 119, 105, 110, 103, 32, 100, 101, 116, 97, 105,
      108, 115, 58, 10, 45, 32, 83, 117, 98, 106, 101, 99, 116, 58, 32, 123, 123, 115,
      117, 98, 106, 101, 99, 116, 125, 125, 10, 45, 32, 77, 97, 105, 110, 32, 109, 101,
      115, 115, 97, 103, 101, 58, 32, 123, 123, 109, 101, 115, 115, 97, 103, 101, 125,
      125, 10, 45, 32, 67, 97, 108, 108, 32, 116, 111, 32, 97, 99, 116, 105, 111, 110,
      58, 32, 123, 123, 99, 116, 97, 125, 125, 10, 10, 75, 101, 101, 112, 32, 105, 116,
      32, 99, 111, 110, 99, 105, 115, 101, 44, 32, 99, 108, 101, 97, 114, 44, 32, 97,
      110, 100, 32, 112, 114, 111, 102, 101, 115, 115, 105, 111, 110, 97, 108, 46>>

\* PRESETS[4].name: "Meeting Summary"
PresetMeetingSummaryName == <<77, 101, 101, 116, 105, 110, 103, 32, 83, 117, 109, 109, 97, 114, 121>>

\* PRESETS[4].content: "You are a meeting notes summarizer." ... with {{transcript}}
PresetMeetingSummaryContent ==
    <<89, 111, 117, 32, 97, 114, 101, 32, 97, 32, 109, 101, 101, 116, 105, 110, 103,
      32, 110, 111, 116, 101, 115, 32, 115, 117, 109, 109, 97, 114, 105, 122, 101, 114,
      46, 10, 10, 83, 117, 109, 109, 97, 114, 105, 122, 101, 32, 116, 104, 101, 32,
      102, 111, 108, 108, 111, 119, 105, 110, 103, 32, 109, 101, 101, 116, 105, 110,
      103, 32, 116, 114, 97, 110, 115, 99, 114, 105, 112, 116, 32, 105, 110, 116, 111,
      58, 10, 49, 46, 32, 75, 101, 121, 32, 100, 101, 99, 105, 115, 105, 111, 110, 115,
      32, 109, 97, 100, 101, 10, 50, 46, 32, 65, 99, 116, 105, 111, 110, 32, 105, 116,
      101, 109, 115, 32, 119, 105, 116, 104, 32, 111, 119, 110, 101, 114, 115, 10, 51,
      46, 32, 84, 111, 112, 105, 99, 115, 32, 100, 105, 115, 99, 117, 115, 115, 101,
      100, 10, 52, 46, 32, 78, 101, 120, 116, 32, 115, 116, 101, 112, 115, 10, 10, 84,
      114, 97, 110, 115, 99, 114, 105, 112, 116, 58, 10, 123, 123, 116, 114, 97, 110,
      115, 99, 114, 105, 112, 116, 125, 125, 10, 10, 70, 111, 114, 109, 97, 116, 32,
      97, 115, 32, 115, 116, 114, 117, 99, 116, 117, 114, 101, 100, 32, 98, 117, 108,
      108, 101, 116, 32, 112, 111, 105, 110, 116, 115, 46>>

\* PRESETS[5].name: "Data Analysis"
PresetDataAnalysisName == <<68, 97, 116, 97, 32, 65, 110, 97, 108, 121, 115, 105, 115>>

\* PRESETS[5].content: "You are a data analyst." ... with {{dataset_description}}, {{question}}
PresetDataAnalysisContent ==
    <<89, 111, 117, 32, 97, 114, 101, 32, 97, 32, 100, 97, 116, 97, 32, 97, 110, 97,
      108, 121, 115, 116, 46, 10, 10, 65, 110, 97, 108, 121, 122, 101, 32, 116, 104,
      101, 32, 102, 111, 108, 108, 111, 119, 105, 110, 103, 32, 100, 97, 116, 97, 115,
      101, 116, 32, 100, 101, 115, 99, 114, 105, 112, 116, 105, 111, 110, 32, 97, 110,
      100, 32, 112, 114, 111, 118, 105, 100, 101, 58, 10, 49, 46, 32, 83, 117, 103,
      103, 101, 115, 116, 101, 100, 32, 109, 101, 116, 114, 105, 99, 115, 32, 116, 111,
      32, 99, 97, 108, 99, 117, 108, 97, 116, 101, 10, 50, 46, 32, 80, 111, 116, 101,
      110, 116, 105, 97, 108, 32, 105, 110, 115, 105, 103, 104, 116, 115, 32, 111, 114,
      32, 112, 97, 116, 116, 101, 114, 110, 115, 10, 51, 46, 32, 82, 101, 99, 111, 109,
      109, 101, 110, 100, 101, 100, 32, 118, 105, 115, 117, 97, 108, 105, 122, 97, 116,
      105, 111, 110, 115, 10, 10, 68, 97, 116, 97, 115, 101, 116, 58, 10, 123, 123,
      100, 97, 116, 97, 115, 101, 116, 95, 100, 101, 115, 99, 114, 105, 112, 116, 105,
      111, 110, 125, 125, 10, 10, 66, 117, 115, 105, 110, 101, 115, 115, 32, 81, 117,
      101, 115, 116, 105, 111, 110, 58, 10, 123, 123, 113, 117, 101, 115, 116, 105,
      111, 110, 125, 125>>

\* PRESETS[6].name: "QA Tester"
PresetQATesterName == <<81, 65, 32, 84, 101, 115, 116, 101, 114>>

\* PRESETS[6].content: "You are a QA tester creating test cases." ... with {{feature}}
PresetQATesterContent ==
    <<89, 111, 117, 32, 97, 114, 101, 32, 97, 32, 81, 65, 32, 116, 101, 115, 116, 101,
      114, 32, 99, 114, 101, 97, 116, 105, 110, 103, 32, 116, 101, 115, 116, 32, 99,
      97, 115, 101, 115, 46, 10, 10, 71, 101, 110, 101, 114, 97, 116, 101, 32, 116,
      101, 115, 116, 32, 99, 97, 115, 101, 115, 32, 102, 111, 114, 32, 116, 104, 101,
      32, 102, 111, 108, 108, 111, 119, 105, 110, 103, 32, 102, 101, 97, 116, 117, 114,
      101, 58, 10, 10, 70, 101, 97, 116, 117, 114, 101, 32, 68, 101, 115, 99, 114, 105,
      112, 116, 105, 111, 110, 58, 10, 123, 123, 102, 101, 97, 116, 117, 114, 101, 125,
      125, 10, 10, 84, 101, 115, 116, 32, 67, 111, 118, 101, 114, 97, 103, 101, 58, 10,
      45, 32, 72, 97, 112, 112, 121, 32, 112, 97, 116, 104, 32, 115, 99, 101, 110, 97,
      114, 105, 111, 115, 10, 45, 32, 69, 100, 103, 101, 32, 99, 97, 115, 101, 115, 10,
      45, 32, 69, 114, 114, 111, 114, 32, 99, 111, 110, 100, 105, 116, 105, 111, 110,
      115, 10, 45, 32, 66, 111, 117, 110, 100, 97, 114, 121, 32, 118, 97, 108, 117,
      101, 115, 10, 10, 70, 111, 114, 109, 97, 116, 32, 97, 115, 32, 97, 32, 115, 116,
      114, 117, 99, 116, 117, 114, 101, 100, 32, 116, 101, 115, 116, 32, 99, 97, 115,
      101, 32, 108, 105, 115, 116, 32, 119, 105, 116, 104, 32, 112, 114, 101, 114, 101,
      113, 117, 105, 115, 105, 116, 101, 115, 44, 32, 115, 116, 101, 112, 115, 44, 32,
      97, 110, 100, 32, 101, 120, 112, 101, 99, 116, 101, 100, 32, 114, 101, 115, 117,
      108, 116, 115, 46>>

PRESETS ==
    <<[name |-> PresetSupportTriageName, content |-> PresetSupportTriageContent],
      [name |-> PresetCodeReviewName, content |-> PresetCodeReviewContent],
      [name |-> PresetSQLGeneratorName, content |-> PresetSQLGeneratorContent],
      [name |-> PresetEmailWriterName, content |-> PresetEmailWriterContent],
      [name |-> PresetMeetingSummaryName, content |-> PresetMeetingSummaryContent],
      [name |-> PresetDataAnalysisName, content |-> PresetDataAnalysisContent],
      [name |-> PresetQATesterName, content |-> PresetQATesterContent]>>


(***************************************************************************)
(* Prompt records and their JSON form                                      *)
(***************************************************************************)
\* "id"
TextId == <<105, 100>>

\* "versions"
TextVersions == <<118, 101, 114, 115, 105, 111, 110, 115>>

\* "timestamp"
TextTimestamp == <<116, 105, 109, 101, 115, 116, 97, 109, 112>>

\* "createdAt"
TextCreatedAt == <<99, 114, 101, 97, 116, 101, 100, 65, 116>>

\* "updatedAt"
TextUpdatedAt == <<117, 112, 100, 97, 116, 101, 100, 65, 116>>

\* " (shared)"
TextShared == <<32, 40, 115, 104, 97, 114, 101, 100, 41>>

\* "undefined"
TextUndefined == <<117, 110, 100, 101, 102, 105, 110, 101, 100>>

\* "[object Object]"
TextObject == <<91, 111, 98, 106, 101, 99, 116, 32, 79, 98, 106, 101, 99, 116, 93>>

\* selectedId = null.  An id is a string of decimal digits; no string is <<-1>>.
NullId == <<0 - 1>>

\* the object literal of createPrompt and savePrompt, in property order
PromptToJSON(p) ==
    JObj(<<[k |-> TextId, v |-> JStr(p.id)],
           [k |-> TextName, v |-> JStr(p.name)],
           [k |-> TextContent, v |-> JStr(p.content)],
           [k |-> TextVariables, v |-> StringArray(p.variables)],
           [k |-> TextVersions,
            v |-> JArr([i \in 1..Len(p.versions) |->
                          JObj(<<[k |-> TextContent, v |-> JStr(p.versions[i].content)],
                                 [k |-> TextTimestamp,
                                  v |-> JNum(p.versions[i].timestamp)]>>)])],
           [k |-> TextCreatedAt, v |-> JNum(p.createdAt)],
           [k |-> TextUpdatedAt, v |-> JNum(p.updatedAt)]>>)

LibraryToJSON(ps) == JArr([i \in 1..Len(ps) |-> PromptToJSON(ps[i])])

Keys(obj) == {obj.members[i].k : i \in 1..Len(obj.members)}

IsStringArray(v) == v.t = "arr" /\ \A i \in 1..Len(v.items) : v.items[i].t = "str"

IsVersionJSON(v) ==
    /\ v.t = "obj"
    /\ Keys(v) = {TextContent, TextTimestamp}
    /\ GetProperty(v, TextContent).t = "str"
    /\ GetProperty(v, TextTimestamp).t = "num"

\* a parsed value that is a Prompt as the interface declares it (lines 5-13)
IsPromptJSON(v) ==
    /\ v.t = "obj"
    /\ Keys(v) = {TextId, TextName, TextContent, TextVariables, TextVersions,
                  TextCreatedAt, TextUpdatedAt}
    /\ GetProperty(v, TextId).t = "str"
    /\ GetProperty(v, TextName).t = "str"
    /\ GetProperty(v, TextContent).t = "str"
    /\ IsStringArray(GetProperty(v, TextVariables))
    /\ GetProperty(v, TextVersions).t = "arr"
    /\ \A i \in 1..Len(GetProperty(v, TextVersions).items) :
           IsVersionJSON(GetProperty(v, TextVersions).items[i])
    /\ GetProperty(v, TextCreatedAt).t = "num"
    /\ GetProperty(v, TextUpdatedAt).t = "num"

IsLibraryJSON(v) == v.t = "arr" /\ \A i \in 1..Len(v.items) : IsPromptJSON(v.items[i])

Strings(arr) == [i \in 1..Len(arr.items) |-> arr.items[i].s]

PromptFromJSON(v) ==
    [id |-> GetProperty(v, TextId).s,
     name |-> GetProperty(v, TextName).s,
     content |-> GetProperty(v, TextContent).s,
     variables |-> Strings(GetProperty(v, TextVariables)),
     versions |-> LET vs == GetProperty(v, TextVersions).items
                  IN  [i \in 1..Len(vs) |->
                          [content |-> GetProperty(vs[i], TextContent).s,
                           timestamp |-> GetProperty(vs[i], TextTimestamp).n]],
     createdAt |-> GetProperty(v, TextCreatedAt).n,
     updatedAt |-> GetProperty(v, TextUpdatedAt).n]

LibraryFromJSON(v) == [i \in 1..Len(v.items) |-> PromptFromJSON(v.items[i])]

(***************************************************************************)
(* Bounds and the inputs the operations are tried on                       *)
(***************************************************************************)
\* a behaviour has at most MaxSteps user operations (clicks, typing, page loads)
MaxSteps == 3

\* "X"
NameX == <<88>>

\* "Y"
NameY == <<89>>

\* "new body {{v}}"
ContentNewBody == <<110, 101, 119, 32, 98, 111, 100, 121, 32, 123, 123, 118, 125, 125>>

\* "S"
NameShared == <<83>>

\* "{{q}}?"
ContentShared == <<123, 123, 113, 125, 125, 63>>

\* btoa(encodeURIComponent('{"name":"S","content":5}'))
TokenContentNumber == 
    <<74, 84, 100, 67, 74, 84, 73, 121, 98, 109, 70, 116, 90, 83, 85, 121, 77, 105, 85,
      122, 81, 83, 85, 121, 77, 108, 77, 108, 77, 106, 73, 108, 77, 107, 77, 108, 77,
      106, 74, 106, 98, 50, 53, 48, 90, 87, 53, 48, 74, 84, 73, 121, 74, 84, 78, 66,
      78, 83, 85, 51, 82, 65, 61, 61>>

\* "{not json"
TextNotJSON == <<123, 110, 111, 116, 32, 106, 115, 111, 110>>

\* "5"
TextNumber == <<53>>

\* "[]"
TextEmptyArray == <<91, 93>>

\* "{}"
TextEmptyObject == <<123, 125>>

\* the names typed into the New Prompt dialog
NewPromptNames == {NameX}

\* the names and contents typed into the editor
EditNames == {NameY}

EditContents == {ContentNewBody}

\* the presets picked from the Templates menu (indices into PRESETS)
PresetChoices == {4}

Absent == [has |-> FALSE, text |-> <<>>]

Present(text) == [has |-> TRUE, text |-> text]

\* a share link as sharePrompt makes it, for the prompt (NameShared, ContentShared)
TokenShared ==
    serializePrompt(NameShared, ContentShared, extractVariables(ContentShared)).s

\* the 's' parameter of the URL the page is loaded with again
ReloadLinks == {Absent, Present(TokenShared)}

\* the 's' parameter of the URL the page is first opened with
ShareLinks == ReloadLinks \cup {Present(TokenContentNumber)}

\* what the 'prompt-library' item holds before the program first runs: nothing, or
\* text that the program did not write
ForeignStorage ==
    {Absent, Present(TextNotJSON), Present(TextNumber), Present(TextNull),
     Present(TextEmptyObject), Present(TextEmptyArray)}

(***************************************************************************)
(* The PromptLibrary component                                             *)
(***************************************************************************)
\* URLSearchParams.get('s') of a raw value without "%": each "+" reads as a space
URLSearchParamsGet(raw) ==
    IF ~raw.has THEN Absent
    ELSE Present([i \in 1..Len(raw.text) |->
                     IF raw.text[i] = CharPlus THEN CharSpace ELSE raw.text[i]])

\* ToBoolean of a parsed value
Truthy(v) ==
    CASE v.t \in {"null", "undefined"} -> FALSE
      [] v.t = "bool" -> v.b
      [] v.t = "num" -> v.n # 0
      [] v.t = "real" ->
            LET mantissa == SubSeq(v.lex, 1,
                                Min({i \in 1..(Len(v.lex) + 1) :
                                        i > Len(v.lex) \/ v.lex[i] \in {69, 101}}) - 1)
            IN  \E i \in 1..Len(mantissa) : mantissa[i] >= 49 /\ mantissa[i] <= 57
      [] v.t = "str" -> v.s # <<>>
      [] OTHER -> TRUE

\* ToString of a parsed value, as the + of line 193 applies it
RECURSIVE ToStringJS(_)
ToStringJS(v) ==
    CASE v.t = "undefined" -> TextUndefined
      [] v.t = "null" -> TextNull
      [] v.t = "bool" -> IF v.b THEN TextTrue ELSE TextFalse
      [] v.t = "num" -> NumberToString(v.n)
      [] v.t = "real" -> v.lex
      [] v.t = "str" -> v.s
      [] v.t = "arr" ->
            LET Item(i) ==
                    (IF i > 1 THEN <<CharComma>> ELSE <<>>)
                        \o (IF v.items[i].t \in {"null", "undefined"} THEN <<>>
                            ELSE ToStringJS(v.items[i]))
            IN  FlatMapIndex(Item, 1, Len(v.items))
      [] v.t = "obj" -> TextObject

\* prompts.find((p) => p.id === selectedId): the first prompt with that id
SelectedPrompt(ps, sid) ==
    IF \E i \in 1..Len(ps) : ps[i].id = sid
    THEN [found |-> TRUE, p |-> ps[Min({i \in 1..Len(ps) : ps[i].id = sid})]]
    ELSE [found |-> FALSE]

\* the Prompt createPrompt builds (lines 169-178); the handler's four Date.now()
\* calls are taken to read the same millisecond t
NewPrompt(name, content, t) ==
    [id |-> NumberToString(t),
     name |-> name,
     content |-> content,
     variables |-> extractVariables(content),
     versions |-> <<[content |-> content, timestamp |-> t]>>,
     createdAt |-> t,
     updatedAt |-> t]

\* savePrompt that keeps the variables the prompt had
UpdatedPromptKeepsVariables(selected, name, content, t) ==
    [selected EXCEPT !.name = name,
                     !.content = content,
                     !.versions = Append(selected.versions,
                                         [content |-> content, timestamp |-> t]),
                     !.updatedAt = t]

\* the Prompt savePrompt builds from the selected one and the editor (lines 233-241)
UpdatedPrompt(selected, name, content, t) ==
    [selected EXCEPT !.name = name,
                     !.content = content,
                     !.variables = extractVariables(content),
                     !.versions = Append(selected.versions,
                                         [content |-> content, timestamp |-> t]),
                     !.updatedAt = t]

\* prompts.map((p) => (p.id === selectedId ? updated : p))
SavedLibrary(ps, sid, updated) ==
    [i \in 1..Len(ps) |-> IF ps[i].id = sid THEN updated ELSE ps[i]]

\* prompts.filter((p) => p.id !== id)
Filtered(ps, id) == SelectSeq(ps, LAMBDA p : p.id # id)

\* deletePrompt without the branch that clears the selection of an empty Library
SelectionAfterDeleteNoClear(filtered, sid, id) ==
    IF sid = id /\ Len(filtered) > 0 THEN filtered[1].id ELSE sid

\* the selection deletePrompt leaves (lines 248-252)
SelectionAfterDelete(filtered, sid, id) ==
    IF sid = id /\ Len(filtered) > 0 THEN filtered[1].id
    ELSE IF Len(filtered) = 0 THEN NullId
    ELSE sid

\* the effect on [prompts] (lines 214-218): what the item holds after it ran
PersistEffect(ps, item) ==
    IF Len(ps) > 0 THEN Present(JSONStringify(LibraryToJSON(ps))) ELSE item

\* The render that follows a handler which set the prompts state to ps (changed: it
\* called setPrompts) and the selection to sid, with the effects that render runs:
\* the persist effect when prompts changed, and the effect on [selectedPrompt]
\* (lines 220-229), which copies a newly selected prompt into the editor.
Rerender(ps, sid, changed) ==
    LET before == SelectedPrompt(prompts, selectedId)
        after == SelectedPrompt(ps, sid)
    IN  /\ prompts' = ps
        /\ selectedId' = sid
        /\ storage' = IF changed THEN PersistEffect(ps, storage) ELSE storage
        /\ IF after.found /\ after # before
           THEN editName' = after.p.name /\ editContent' = after.p.content
           ELSE UNCHANGED <<editName, editContent>>

Init ==
    /\ pc = "mount_share"
    /\ prompts = <<>>
    /\ libraryType = "array"
    /\ selectedId = NullId
    /\ editName = <<>>
    /\ editContent = <<>>
    /\ queued = [prompts |-> <<>>, libraryType |-> "array", selectedId |-> NullId]
    /\ storage \in ForeignStorage
    /\ search \in ShareLinks
    /\ now = 1
    /\ lastOp = [op |-> "start", id |-> NullId]
    /\ steps = 0
    /\ tpl = [phase |-> "off"]
    /\ codec = [phase |-> "off"]

\* the share import effect does nothing: no 's' parameter, or a falsy promptData
NoShareImport ==
    /\ pc' = "mount_load"
    /\ lastOp' = [op |-> "shareImport", id |-> NullId]
    /\ UNCHANGED <<queued, search>>

\* createPrompt as the effect calls it (lines 168-183 with prompts = [], the first
\* render's), then replaceState (line 194), which drops the 's' parameter
ImportPrompt(newPrompt) ==
    /\ pc' = "mount_load"
    /\ queued' = [prompts |-> Append(prompts, newPrompt),
                  libraryType |-> "array",
                  selectedId |-> newPrompt.id]
    /\ lastOp' = [op |-> "shareImport", id |-> newPrompt.id]
    /\ search' = Absent

\* promptData.name + ' (shared)'
SharedName(promptData) == ToStringJS(GetProperty(promptData, TextName)) \o TextShared

\* createPrompt(promptData.name + ' (shared)', promptData.content) of line 193, given
\* promptData.content: the default content for undefined; for a value that is no
\* string extractVariables throws (content.match is not a function) in the effect
ImportShared(promptData, given) ==
    IF given.t = "str" THEN ImportPrompt(NewPrompt(SharedName(promptData), given.s, now))
    ELSE IF given.t = "undefined"
         THEN ImportPrompt(NewPrompt(SharedName(promptData), DEFAULT_PROMPT, now))
    ELSE /\ pc' = "crashed"
         /\ lastOp' = [op |-> "shareImport", id |-> NullId]
         /\ UNCHANGED <<queued, search>>

\* lines 190-196, given what deserializePrompt returned
ImportDecoded(promptData) ==
    IF Truthy(promptData) THEN ImportShared(promptData, GetProperty(promptData, TextContent))
    ELSE NoShareImport

\* lines 188-197, given params.get('s')
ImportFrom(shared) ==
    IF shared.has /\ shared.text # <<>> THEN ImportDecoded(deserializePrompt(shared.text))
    ELSE NoShareImport

\* The effect of lines 187-199, run once after the first render (prompts = [],
\* selectedId = null): createPrompt there reads the first render's prompts.
\* lastOp.id records the id of the prompt the effect created, if it created one.
ShareImportEffect ==
    /\ pc = "mount_share"
    /\ ImportFrom(URLSearchParamsGet(search))
    /\ UNCHANGED <<prompts, libraryType, selectedId, editName, editContent, storage,
                   now, steps, tpl, codec>>

\* the JavaScript type of a parsed value, as the prompts state would hold it
TypeOfParsed(v) ==
    CASE v.t = "arr" -> IF IsLibraryJSON(v) THEN "array" ELSE "array of non-prompts"
      [] v.t = "num" -> "number"
      [] v.t = "real" -> "number"
      [] v.t = "str" -> "string"
      [] v.t = "bool" -> "boolean"
      [] v.t = "null" -> "null"
      [] v.t = "obj" -> "object"

\* setPrompts(parsed) and, for a non-empty array, setSelectedId(parsed[0].id)
\* (lines 205-208), given the value JSON.parse returned
QueuedAfterLoad(value) ==
    IF IsLibraryJSON(value)
    THEN [prompts |-> LibraryFromJSON(value),
          libraryType |-> "array",
          selectedId |-> IF Len(value.items) > 0
                         THEN GetProperty(value.items[1], TextId).s
                         ELSE queued.selectedId]
    ELSE [prompts |-> <<>>,
          libraryType |-> TypeOfParsed(value),
          selectedId |-> queued.selectedId]

\* lines 204-211, given what JSON.parse did with the stored text: a SyntaxError is
\* caught and nothing is set
LoadParsed(parsed) ==
    IF parsed.ok THEN queued' = QueuedAfterLoad(parsed.v) ELSE UNCHANGED queued

\* The effect of lines 201-212: setPrompts(parsed) for whatever JSON.parse returns;
\* setSelectedId(parsed[0].id) for a non-empty array.  A SyntaxError and the
\* TypeError of null.length are caught after setPrompts was called.
LoadEffect ==
    /\ pc = "mount_load"
    /\ IF storage.has /\ storage.text # <<>>
       THEN LoadParsed(JSONParse(storage.text))
       ELSE UNCHANGED queued
    /\ pc' = "mount_commit"
    /\ lastOp' = [op |-> "load", id |-> lastOp.id]
    /\ UNCHANGED <<prompts, libraryType, selectedId, editName, editContent, storage,
                   search, now, steps, tpl, codec>>

\* The re-render with the state the mount effects queued, and its effects.  With a
\* prompts state that is no array of prompts the render throws (prompts.find is not
\* a function, or a field of an element is missing) and the page is gone.
\* The page is on the screen, and a handler can run, only after this render: a
\* handler reads the clock later than the mount effects did.
MountCommit ==
    /\ pc = "mount_commit"
    /\ libraryType' = queued.libraryType
    /\ IF queued.libraryType = "array"
       THEN /\ pc' = "ready"
            /\ Rerender(queued.prompts, queued.selectedId, queued.prompts # prompts)
       ELSE /\ pc' = "crashed"
            /\ UNCHANGED <<prompts, selectedId, editName, editContent, storage>>
    /\ lastOp' = [op |-> "mounted", id |-> lastOp.id]
    /\ now' = now + 1
    /\ UNCHANGED <<queued, search, steps, tpl, codec>>

\* a user operation on the rendered page, within the bound on their number
UserStep ==
    /\ pc = "ready"
    /\ steps < MaxSteps
    /\ steps' = steps + 1
    /\ UNCHANGED <<pc, libraryType, queued, search, tpl, codec>>

\* What Date.now() reads in a handler: the clock's last reading, or a later one (only
\* the order and equality of readings matter, so later is one millisecond later).
\* The Date.now() calls of one handler are taken to read the same millisecond.
ClockReadings == {now, now + 1}

\* createPrompt(name, content) from a handler (lines 168-183)
createPrompt(name, content) ==
    \E t \in ClockReadings :
        /\ UserStep
        /\ now' = t
        /\ Rerender(Append(prompts, NewPrompt(name, content, t)), NumberToString(t), TRUE)
        /\ lastOp' = [op |-> "create", id |-> NumberToString(t)]

\* the Create button of the New Prompt dialog (line 522): a non-empty name
CreatePrompt == \E name \in NewPromptNames : createPrompt(name, DEFAULT_PROMPT)

\* loadPreset (lines 255-257)
LoadPreset ==
    \E i \in PresetChoices : createPrompt(PRESETS[i].name, PRESETS[i].content)

\* a click on a prompt of the sidebar (line 303)
SelectPrompt ==
    /\ UserStep
    /\ \E i \in 1..Len(prompts) :
          /\ prompts[i].id # selectedId
          /\ Rerender(prompts, prompts[i].id, FALSE)
          /\ lastOp' = [op |-> "select", id |-> prompts[i].id]
    /\ UNCHANGED now

\* typing into the name field or the editor (lines 359, 412), shown for a selected prompt
EditName ==
    /\ UserStep
    /\ SelectedPrompt(prompts, selectedId).found
    /\ \E name \in EditNames : editName # name /\ editName' = name
    /\ lastOp' = [op |-> "editName", id |-> selectedId]
    /\ UNCHANGED <<prompts, selectedId, editContent, storage, now>>

EditContent ==
    /\ UserStep
    /\ SelectedPrompt(prompts, selectedId).found
    /\ \E content \in EditContents : editContent # content /\ editContent' = content
    /\ lastOp' = [op |-> "editContent", id |-> selectedId]
    /\ UNCHANGED <<prompts, selectedId, editName, storage, now>>

\* a click on a version of the history (lines 450-458): its content into the editor
RestoreVersion ==
    /\ UserStep
    /\ LET selected == SelectedPrompt(prompts, selectedId)
       IN  /\ selected.found
           /\ \E k \in 1..Len(selected.p.versions) :
                 /\ editContent # selected.p.versions[k].content
                 /\ editContent' = selected.p.versions[k].content
    /\ lastOp' = [op |-> "restore", id |-> selectedId]
    /\ UNCHANGED <<prompts, selectedId, editName, storage, now>>

\* savePrompt (lines 231-243)
SavePrompt ==
    /\ UserStep
    /\ LET selected == SelectedPrompt(prompts, selectedId)
       IN  /\ selected.found
           /\ \E t \in ClockReadings :
                 /\ now' = t
                 /\ Rerender(SavedLibrary(prompts, selectedId,
                                          UpdatedPrompt(selected.p, editName,
                                                        editContent, t)),
                             selectedId, TRUE)
    /\ lastOp' = [op |-> "save", id |-> selectedId]

\* deletePrompt(id) (lines 245-253).  The page calls it with the selected prompt's
\* id (line 383); the function takes the id of any prompt.
DeletePrompt ==
    /\ UserStep
    /\ \E i \in 1..Len(prompts) :
          LET id == prompts[i].id
              filtered == Filtered(prompts, id)
          IN  /\ Rerender(filtered, SelectionAfterDelete(filtered, selectedId, id), TRUE)
              /\ lastOp' = [op |-> "delete", id |-> id]
    /\ UNCHANGED now

\* The page is loaded again, at its own URL or at a share link: the component starts
\* from its initial state (lines 156-159); the stored item stays, and loading takes
\* time.
Reload ==
    /\ pc \in {"ready", "crashed"}
    /\ steps < MaxSteps
    /\ steps' = steps + 1
    /\ pc' = "mount_share"
    /\ prompts' = <<>>
    /\ libraryType' = "array"
    /\ selectedId' = NullId
    /\ editName' = <<>>
    /\ editContent' = <<>>
    /\ queued' = [prompts |-> <<>>, libraryType |-> "array", selectedId |-> NullId]
    /\ search' \in ReloadLinks
    /\ now' = now + 1
    /\ lastOp' = [op |-> "start", id |-> NullId]
    /\ UNCHANGED <<storage, tpl, codec>>

Next ==
    \/ ShareImportEffect
    \/ LoadEffect
    \/ MountCommit
    \/ CreatePrompt
    \/ LoadPreset
    \/ SelectPrompt
    \/ EditName
    \/ EditContent
    \/ RestoreVersion
    \/ SavePrompt
    \/ DeletePrompt
    \/ Reload

Spec == Init /\ [][Next]_vars

(***************************************************************************)
(* The template engine on drawn inputs                                     *)
(***************************************************************************)
\* the contents substituteVariables is tried on:
\*   "{{a}}", "{{a}} {{b}}", "{{a}}{{a}}", "x{{a}}y{{1}}", "{{{{a}}}}",
\*   "{{a", "plain", "{{b}} {{a}} {{b}}"
TemplateContents ==
    {<<123, 123, 97, 125, 125>>,
     <<123, 123, 97, 125, 125, 32, 123, 123, 98, 125, 125>>,
     <<123, 123, 97, 125, 125, 123, 123, 97, 125, 125>>,
     <<120, 123, 123, 97, 125, 125, 121, 123, 123, 49, 125, 125>>,
     <<123, 123, 123, 123, 97, 125, 125, 125, 125>>,
     <<123, 123, 97>>,
     <<112, 108, 97, 105, 110>>,
     <<123, 123, 98, 125, 125, 32, 123, 123, 97, 125, 125, 32, 123, 123, 98, 125, 125>>}

\* the names of the value map: "a", "b", "1"
TemplateKeys == {<<97>>, <<98>>, <<49>>}

\* the values of the value map: "", "v", "{{b}}", "$&", "$'"
TemplateValues ==
    {<<>>, <<118>>, <<123, 123, 98, 125, 125>>, <<36, 38>>, <<36, 39>>}

\* the value maps (a Record<string, string> as its entries in insertion order):
\* none, one or two names
ValueMaps ==
    {<<>>}
        \cup {<<[key |-> k, value |-> v]>> : k \in TemplateKeys, v \in TemplateValues}
        \cup {<<[key |-> k[1], value |-> v], [key |-> k[2], value |-> w]>> :
                 k \in {p \in TemplateKeys \X TemplateKeys : p[1] # p[2]},
                 v \in TemplateValues, w \in TemplateValues}

InitTemplate ==
    /\ pc = "off"
    /\ prompts = <<>>
    /\ libraryType = "array"
    /\ selectedId = NullId
    /\ editName = <<>>
    /\ editContent = <<>>
    /\ queued = [prompts |-> <<>>, libraryType |-> "array", selectedId |-> NullId]
    /\ storage = Absent
    /\ search = Absent
    /\ now = 1
    /\ lastOp = [op |-> "start", id |-> NullId]
    /\ steps = 0
    /\ tpl \in [phase : {"input"}, content : TemplateContents, values : ValueMaps,
                result : {<<>>}]
    /\ codec = [phase |-> "off"]

\* previewContent (line 287): substituteVariables(content, values)
Substitute ==
    /\ tpl.phase = "input"
    /\ tpl' = [tpl EXCEPT !.phase = "done",
                          !.result = substituteVariables(tpl.content, tpl.values)]
    /\ UNCHANGED <<storeVars, codec>>

NextTemplate == Substitute

SpecTemplate == InitTemplate /\ [][NextTemplate]_vars

(***************************************************************************)
(* The share codec on drawn inputs                                         *)
(***************************************************************************)
\* the texts of a share payload are of at most MaxTextLen code units
MaxTextLen == 2

\* the code units the texts are made of: a quotation mark, a backslash, a line
\* feed, "a", "%", "+", e acute (U+00E9), the euro sign (U+20AC), and the two
\* halves of U+1F600 (a surrogate pair when lead and trail are adjacent, lone
\* surrogates otherwise)
CodecAlphabet == {34, 92, 10, 97, 37, 43, 233, 8364, 55357, 56832}

CodecTexts == UNION {[1..k -> CodecAlphabet] : k \in 0..MaxTextLen}

\* the prompts serializePrompt is tried on: the text as the name, as the content,
\* and as name, content and only variable
CodecPayloads ==
    {[name |-> text, content |-> ContentShared,
      variables |-> extractVariables(ContentShared)] : text \in CodecTexts}
        \cup {[name |-> NameShared, content |-> text,
               variables |-> extractVariables(text)] : text \in CodecTexts}
        \cup {[name |-> text, content |-> text, variables |-> <<text>>] :
                 text \in CodecTexts}

\* "not-valid-base64!!"
TokenNotBase64 == <<110, 111, 116, 45, 118, 97, 108, 105, 100, 45, 98, 97, 115, 101, 54, 52, 33, 33>>

\* btoa("%"): "JQ==", which decodeURIComponent rejects
TokenBadPercent == <<74, 81, 61, 61>>

\* btoa(encodeURIComponent('{not json'))
TokenNotJSON == 
    <<74, 84, 100, 67, 98, 109, 57, 48, 74, 84, 73, 119, 97, 110, 78, 118, 98, 103, 61,
      61>>

\* btoa(encodeURIComponent("5")): "NQ=="
TokenNumber == <<78, 81, 61, 61>>

\* btoa(encodeURIComponent("null"))
TokenNull == <<98, 110, 86, 115, 98, 65, 61, 61>>

\* btoa(encodeURIComponent("{}"))
TokenEmptyObject == <<74, 84, 100, 67, 74, 84, 100, 69>>

\* btoa(encodeURIComponent('{"name":"S"}'))
TokenNameOnly == 
    <<74, 84, 100, 67, 74, 84, 73, 121, 98, 109, 70, 116, 90, 83, 85, 121, 77, 105, 85,
      122, 81, 83, 85, 121, 77, 108, 77, 108, 77, 106, 73, 108, 78, 48, 81, 61>>

\* tokens of a share link that sharePrompt did not make
ForeignTokens ==
    {TokenNotBase64, TokenBadPercent, TokenNotJSON, TokenNumber, TokenNull,
     TokenEmptyObject, TokenNameOnly, TokenContentNumber}

InitCodec ==
    /\ pc = "off"
    /\ prompts = <<>>
    /\ libraryType = "array"
    /\ selectedId = NullId
    /\ editName = <<>>
    /\ editContent = <<>>
    /\ queued = [prompts |-> <<>>, libraryType |-> "array", selectedId |-> NullId]
    /\ storage = Absent
    /\ search = Absent
    /\ now = 1
    /\ lastOp = [op |-> "start", id |-> NullId]
    /\ steps = 0
    /\ tpl = [phase |-> "off"]
    /\ \/ \E payload \in CodecPayloads :
             codec = [phase |-> "input", payload |-> payload, encoded |-> Threw,
                      result |-> JUndefined]
       \/ \E token \in ForeignTokens :
             codec = [phase |-> "received", payload |-> [name |-> <<>>, content |-> <<>>,
                                                         variables |-> <<>>],
                      encoded |-> Returned(token), result |-> JUndefined]

\* sharePrompt (lines 275-285) calls serializePrompt on the selected prompt
Serialize ==
    /\ codec.phase = "input"
    /\ codec' = [codec EXCEPT !.phase = "encoded",
                              !.encoded = serializePrompt(codec.payload.name,
                                                          codec.payload.content,
                                                          codec.payload.variables)]
    /\ UNCHANGED <<storeVars, tpl>>

\* the share import effect (line 191) calls deserializePrompt on the token of the link
Deserialize ==
    /\ codec.phase \in {"encoded", "received"}
    /\ codec.encoded.ok
    /\ codec' = [codec EXCEPT !.phase = IF codec.phase = "encoded" THEN "decoded"
                                        ELSE "decoded foreign",
                              !.result = deserializePrompt(codec.encoded.s)]
    /\ UNCHANGED <<storeVars, tpl>>

NextCodec ==
    \/ Serialize
    \/ Deserialize

SpecCodec == InitCodec /\ [][NextCodec]_vars

(***************************************************************************)
(* The claims                                                              *)
(***************************************************************************)
\* C1: after every mutating operation (create, loadPreset, savePrompt, delete) the
\* item 'prompt-library' holds the serialization of the whole current Library, in
\* order; this includes the delete that removes the last prompt.
StorageHoldsLibrary ==
    (pc = "ready" /\ lastOp.op \in {"create", "save", "delete"})
        => storage = Present(JSONStringify(LibraryToJSON(prompts)))

\* C2: when the page starts with a share token that decodes to {name, content},
\* then once the mount effects have run the Library holds a prompt named
\* name + " (shared)" with the shared content, and that prompt is the selection,
\* whatever the persisted store held.
ShareImportCreates ==
    (pc = "ready" /\ lastOp.op = "mounted" /\ lastOp.id # NullId)
        => \E i \in 1..Len(prompts) :
              /\ prompts[i].name = NameShared \o TextShared
              /\ prompts[i].content = ContentShared
              /\ selectedId = prompts[i].id

\* C3: in every reachable state no two prompts of the Library have the same id.
UniqueIds ==
    \A i \in 1..Len(prompts) : \A j \in 1..Len(prompts) :
        i # j => prompts[i].id # prompts[j].id

\* C4: versions is append-only: a savePrompt appends exactly one entry
\* {editContent, now} to the versions of the prompt it commits (the selected one)
\* and leaves the versions of every other prompt of the Library as they were.
VersionsAppendOnly ==
    [][(lastOp'.op = "save" /\ steps' = steps + 1)
          => LET committed == CHOOSE i \in 1..Len(prompts) :
                                  prompts[i] = SelectedPrompt(prompts, selectedId).p
             IN  /\ Len(prompts') = Len(prompts)
                 /\ \A i \in 1..Len(prompts) :
                       prompts'[i].versions =
                           IF i = committed
                           THEN Append(prompts[i].versions,
                                       [content |-> editContent, timestamp |-> now'])
                           ELSE prompts[i].versions]_vars

\* C5: delete(id) leaves no prompt with that id and keeps the other prompts in
\* their order; if the deleted id was the selection, the selection becomes the
\* first remaining prompt, or none when the Library is now empty; otherwise the
\* selection is unchanged.
DeleteKeepsOrderAndSelects ==
    [][(lastOp'.op = "delete" /\ steps' = steps + 1)
          => LET id == lastOp'.id
                 kept == Ascending({i \in 1..Len(prompts) : prompts[i].id # id})
             IN  /\ Len(prompts') = Len(kept)
                 /\ \A k \in 1..Len(kept) : prompts'[k] = prompts[kept[k]]
                 /\ selectedId = id /\ Len(kept) > 0 => selectedId' = prompts[kept[1]].id
                 /\ selectedId = id /\ Len(kept) = 0 => selectedId' = NullId
                 /\ selectedId # id => selectedId' = selectedId]_vars

\* C5, witness: a delete took the later created of two prompts, the one its
\* creation had selected, and the first remaining prompt is the selection.
DeletedTheSelection ==
    /\ lastOp.op = "delete"
    /\ Len(prompts) = 1
    /\ DecimalValue(lastOp.id) > DecimalValue(prompts[1].id)
    /\ selectedId = prompts[1].id

IsSharedPrompt(v) ==
    /\ v.t = "obj"
    /\ GetProperty(v, TextName).t # "undefined"
    /\ GetProperty(v, TextContent).t # "undefined"
    /\ GetProperty(v, TextVariables).t # "undefined"

\* C7: deserializePrompt returns null for every malformed token (not base64, not
\* JSON, or JSON that is no object with name, content and variables); what it
\* returns that is not null has name, content and variables.
DecodeNullOrPrompt ==
    codec.phase \in {"decoded", "decoded foreign"}
        => codec.result = JNull \/ IsSharedPrompt(codec.result)

\* the stored item is the serialization of a Library
StoredLibraryWellFormed ==
    /\ storage.has
    /\ JSONParse(storage.text).ok
    /\ IsLibraryJSON(JSONParse(storage.text).v)

\* C8: when the stored item is absent or no well-formed serialized Library, the
\* page starts with an empty Library and no selection, no error reaches the
\* caller, and the prompts state holds a sequence.
MalformedStoreStartsEmpty ==
    (lastOp.op = "mounted" /\ ~StoredLibraryWellFormed)
        => /\ pc = "ready"
           /\ libraryType = "array"
           /\ prompts = <<>>
           /\ selectedId = NullId

\* C9: for every content and every value map whose values are all non-empty, the
\* variables of substituteVariables(content, values) are among the variables of
\* content that the map does not name.
SubstitutedDisappear ==
    (/\ tpl.phase = "done"
     /\ \A k \in 1..Len(tpl.values) : tpl.values[k].value # <<>>)
        => Range(extractVariables(tpl.result))
               \subseteq (Range(extractVariables(tpl.content))
                              \ {tpl.values[k].key : k \in 1..Len(tpl.values)})

\* C10: serializePrompt never throws, and deserializePrompt of what it returned is
\* exactly {name, content, variables} of the prompt it was given.
CodecRoundTrip ==
    /\ codec.phase = "encoded" => codec.encoded.ok
    /\ codec.phase = "decoded"
          => codec.result = SharePayload(codec.payload.name, codec.payload.content,
                                         codec.payload.variables)

\* C10, witness: a name of a quotation mark and the euro sign came back from the
\* round trip
RoundTripOfQuoteAndEuro ==
    /\ codec.phase = "decoded"
    /\ codec.payload.name = <<34, 8364>>
    /\ GetProperty(codec.result, TextName) = JStr(<<34, 8364>>)

\* C11: in every state from startup on, through create, loadPreset, select, save
\* and delete, the selection is none or the id of a prompt that is in the Library.
SelectionInLibrary ==
    selectedId = NullId \/ SelectedPrompt(prompts, selectedId).found

====
